---- MODULE Spec2Model ----
(***************************************************************************)
(* A model of tardis/analysis_tools/line_ID.py: the class line_identifier, *)
(* its two wavelength bounds, the chain of lazily computed and cached      *)
(* derived quantities, and the report generator plot_summary.              *)
(*                                                                         *)
(* Conventions.                                                            *)
(*  - A float is <<x>> (Num(x)) or <<>> (NaN); comparisons with NaN are    *)
(*    false, as in IEEE 754 / numpy.                                       *)
(*  - An instance attribute is Absent (not in the instance's __dict__,     *)
(*    reading it raises AttributeError), None, or Val(v).                  *)
(*  - A call returns [self, exc, val]: the instance after the call, the    *)
(*    exception that left it ("" when it returned) and the returned value. *)
(*  - Python sequences are 0-based, TLA+ sequences 1-based: row position p *)
(*    of a table is element p + 1 of the sequence that models it.          *)
(***************************************************************************)
EXTENDS Integers, Sequences, FiniteSets, TLC

VARIABLES self, out

vars == <<self, out>>

-----------------------------------------------------------------------------
(* Floats, attributes, call results *)

NaN == <<>>

Num(x) == <<x>>

IsNaN(a) == a = NaN

\* numpy's a >= b and a <= b on floats
Ge(a, b) == ~IsNaN(a) /\ ~IsNaN(b) /\ a[1] >= b[1]

Le(a, b) == ~IsNaN(a) /\ ~IsNaN(b) /\ a[1] <= b[1]

Absent == [st |-> "absent", v |-> <<>>]

None == [st |-> "None", v |-> <<>>]

Val(x) == [st |-> "val", v |-> x]

Return(s, x) == [self |-> s, exc |-> "", val |-> x]

Raise(s, e) == [self |-> s, exc |-> e, val |-> <<>>]

-----------------------------------------------------------------------------
(* Units (astropy.units as used by the setters and by lam_in) *)

\* the speed of light in the model's units: wavelength [AA] = CLight / nu
CLight == 60

LengthUnits == {"AA", "nm"}

\* a variant of ToAA that keeps the number and drops the unit
ToAAUnconverted(val) == val.value

\* Quantity.to(u.AA) for a length: 1 nm = 10 AA
ToAA(val) == IF val.unit = "nm" THEN Num(10 * val.value[1]) ELSE val.value

\* u.Quantity(nu, u.Hz).to(u.AA, equivalencies=u.spectral()), one element
SpectralAA(nu) == IF IsNaN(nu) THEN NaN ELSE Num(CLight \div nu[1])

-----------------------------------------------------------------------------
(* Sequence helpers standing for the numpy / pandas primitives used *)

RECURSIVE SumSeq(_)
SumSeq(q) == IF q = <<>> THEN 0 ELSE q[1] + SumSeq(Tail(q))

Reverse(q) == [i \in 1..Len(q) |-> q[Len(q) + 1 - i]]

\* q[:n] for n >= 0
Take(q, n) == SubSeq(q, 1, IF n < Len(q) THEN n ELSE Len(q))

\* the elements of q[lo..hi] whose mask entry is true, in order (by halves,
\* which keeps the recursion shallow on long columns)
RECURSIVE BoolIndexIn(_, _, _, _)
BoolIndexIn(q, mask, lo, hi) ==
  IF lo > hi THEN <<>>
  ELSE IF lo = hi THEN (IF mask[lo] THEN <<q[lo]>> ELSE <<>>)
  ELSE LET mid == (lo + hi) \div 2
       IN BoolIndexIn(q, mask, lo, mid) \o BoolIndexIn(q, mask, mid + 1, hi)

\* series[mask].values: the elements whose mask entry is true, in order
BoolIndex(q, mask) == BoolIndexIn(q, mask, 1, Len(q))

\* df.iloc[p]: row position p, a negative p counting from the end
ILoc(df, p) == IF p >= 0 THEN df[p + 1] ELSE df[Len(df) + p + 1]

\* df.loc[id]: the row whose index label (line_id) is id
Loc(df, id) == df[CHOOSE i \in DOMAIN df : df[i].line_id = id]

MinOf(S) == CHOOSE x \in S : \A y \in S : x <= y

MaxOf(S) == CHOOSE x \in S : \A y \in S : x >= y

RECURSIVE SortedSeq(_)
SortedSeq(S) == IF S = {} THEN <<>>
                ELSE <<MinOf(S)>> \o SortedSeq(S \ {MinOf(S)})

\* np.unique(ids): the distinct values, ascending
Unique(ids) == SortedSeq({ids[i] : i \in DOMAIN ids})

\* np.bincount(ids): occurrences of 0, 1, ..., max(ids)
Bincount(ids) ==
  IF ids = <<>> THEN <<>>
  ELSE [k \in 1..(MaxOf({ids[i] : i \in DOMAIN ids}) + 1) |->
          Cardinality({i \in DOMAIN ids : ids[i] = k - 1})]

\* counts[counts > 0]
Positive(counts) == BoolIndex(counts, [k \in DOMAIN counts |-> counts[k] > 0])

-----------------------------------------------------------------------------
(* The dataset wrapped by an instance (self.data, an SDECData).  Only the  *)
(* parts line_identifier reads are kept: packets_df with the columns       *)
(* last_line_interaction_in_nu [Hz] and last_line_interaction_in_id (a row *)
(* position in lines_df, -1 for a packet with no line interaction, whose   *)
(* frequency is undefined), lines_df indexed by line_id, and               *)
(* spectrum_wavelength [AA].                                               *)

Packet(nu, id) ==
  [last_line_interaction_in_nu |-> nu, last_line_interaction_in_id |-> id]

\* a packet with no last-line interaction
NoInteraction == Packet(NaN, -1)

Line(id, z, ion, wl) ==
  [line_id |-> id, atomic_number |-> z, ion_number |-> ion, wavelength |-> wl]

\* three lines of two species; two lines tie on their count over the full range
DataA ==
  [packets_df |-> <<Packet(Num(6), 0), Packet(Num(3), 1), Packet(Num(3), 1),
                    Packet(Num(2), 2), NoInteraction>>,
   lines_df |-> <<Line(5, 1, 0, Num(10)), Line(7, 1, 0, Num(20)),
                  Line(9, 2, 1, Num(30))>>,
   spectrum_wavelength |-> <<Num(30), Num(10), Num(20)>>]

\* packets out of table order, a line_id 0, a line no packet refers to (the
\* last row, the one position -1 denotes), two lines of one species
DataB ==
  [packets_df |-> <<NoInteraction, Packet(Num(3), 2), Packet(Num(6), 0),
                    Packet(Num(3), 1), Packet(Num(2), 1), Packet(Num(3), 2),
                    Packet(Num(2), 1)>>,
   lines_df |-> <<Line(0, 2, 0, Num(10)), Line(2, 1, 0, Num(10)),
                  Line(3, 2, 0, Num(20)), Line(6, 1, 1, Num(30))>>,
   spectrum_wavelength |-> <<Num(20), Num(30)>>]

\* the number of lines of DataC, one more than the default number of bars
NBig == 21

RECURSIVE Triangular(_)
Triangular(j) == IF j = 0 THEN 0 ELSE j + Triangular(j - 1)

\* NBig lines, line j (at row position j - 1) with j packets, so that no two
\* lines tie: the one packet of line 1 at 10 AA, the two of line 2 at 30 AA,
\* all others at 20 AA, and a last packet with no interaction
DataC ==
  [packets_df |->
     [p \in 1..Triangular(NBig) |->
        LET j == CHOOSE j \in 1..NBig : Triangular(j - 1) < p /\ p <= Triangular(j)
        IN Packet(Num(IF j = 1 THEN 6 ELSE IF j = 2 THEN 2 ELSE 3), j - 1)]
       \o <<NoInteraction>>,
   lines_df |-> [j \in 1..NBig |-> Line(2 * j, 1 + (j % 2), j % 3, Num(20))],
   spectrum_wavelength |-> <<Num(10), Num(30)>>]

-----------------------------------------------------------------------------
(* class line_identifier *)

\* __init__(self, data): only self.data is assigned
__init__(data) ==
  [data |-> data,
   _lam_min |-> Absent, _lam_max |-> Absent,
   _line_mask |-> Absent, _lam_in |-> Absent, _lines_info_unique |-> Absent,
   _lines_count |-> Absent, _lines_ids |-> Absent,
   _lines_ids_unique |-> Absent, nlines |-> Absent]

_reset_lam_min(s) == [s EXCEPT !._lam_min = None]

_reset_lam_max(s) == [s EXCEPT !._lam_max = None]

\* a variant of _reset_derived_quantities that keeps lam_in, which does not
\* depend on the bounds
_reset_bound_dependent(s) ==
  [s EXCEPT !._line_mask = None,
            !._lines_info_unique = None, !._lines_count = None,
            !._lines_ids = None, !._lines_ids_unique = None]

_reset_derived_quantities(s) ==
  [s EXCEPT !._line_mask = None, !._lam_in = None,
            !._lines_info_unique = None, !._lines_count = None,
            !._lines_ids = None, !._lines_ids_unique = None]

_reset_cache(s) == _reset_derived_quantities(_reset_lam_max(_reset_lam_min(s)))

\* the lam_min property
lam_min_get(s) ==
  IF s._lam_min.st = "absent" THEN Raise(s, "AttributeError")
  ELSE IF s._lam_min.st = "None" THEN Raise(s, "ValueError")
  ELSE Return(s, s._lam_min.v)

\* a variant of the lam_min setter that converts the value before it resets
\* the derived quantities
lam_min_set_converting_first(s, val) ==
  IF val.unit = "none"
  THEN Return([_reset_derived_quantities(s) EXCEPT !._lam_min = Val(val.value)],
              None)
  ELSE IF val.unit \in LengthUnits
       THEN Return([_reset_derived_quantities(s) EXCEPT
                      !._lam_min = Val(ToAA(val))], None)
       ELSE Raise(s, "UnitConversionError")

\* lam_min.setter; val is a bare number (unit "none", which has no .to and
\* takes the except branch) or a Quantity
lam_min_set(s, val) ==
  LET s1 == _reset_derived_quantities(s) IN
  IF val.unit = "none" THEN Return([s1 EXCEPT !._lam_min = Val(val.value)], None)
  ELSE IF val.unit \in LengthUnits
       THEN Return([s1 EXCEPT !._lam_min = Val(ToAA(val))], None)
       ELSE Raise(s1, "UnitConversionError")

\* a variant of the lam_max getter without the check for an unset bound
lam_max_get_unchecked(s) == Return(s, s._lam_max.v)

\* the lam_max property
lam_max_get(s) ==
  IF s._lam_max.st = "absent" THEN Raise(s, "AttributeError")
  ELSE IF s._lam_max.st = "None" THEN Raise(s, "ValueError")
  ELSE Return(s, s._lam_max.v)

\* a variant of the lam_max setter that leaves the derived quantities cached
lam_max_set_keeps_cache(s, val) ==
  IF val.unit = "none" THEN Return([s EXCEPT !._lam_max = Val(val.value)], None)
  ELSE IF val.unit \in LengthUnits
       THEN Return([s EXCEPT !._lam_max = Val(ToAA(val))], None)
       ELSE Raise(s, "UnitConversionError")

\* lam_max.setter
lam_max_set(s, val) ==
  LET s1 == _reset_derived_quantities(s) IN
  IF val.unit = "none" THEN Return([s1 EXCEPT !._lam_max = Val(val.value)], None)
  ELSE IF val.unit \in LengthUnits
       THEN Return([s1 EXCEPT !._lam_max = Val(ToAA(val))], None)
       ELSE Raise(s1, "UnitConversionError")

\* the lam_in property
lam_in_get(s) ==
  IF s._lam_in.st = "absent" THEN Raise(s, "AttributeError")
  ELSE IF s._lam_in.st = "val" THEN Return(s, s._lam_in.v)
  ELSE LET nu == s.data.packets_df
           lam == [p \in DOMAIN nu |->
                     SpectralAA(nu[p].last_line_interaction_in_nu)]
       IN Return([s EXCEPT !._lam_in = Val(lam)], lam)

\* The getters below are written in steps, one for each property read a
\* getter makes, in Python's evaluation order: a step is given the result r of
\* the read before it, passes its exception on, and otherwise goes on with
\* the instance r.self that read left.

\* a variant of line_mask_store that tests for being out of range,
\* ~(lam_in < lam_min) * ~(lam_in > lam_max), which an undefined wavelength
\* passes
line_mask_store_negated(lam_in1, lam_min, lam_in2, r) ==
  IF r.exc # "" THEN r
  ELSE LET mask == [p \in DOMAIN lam_in1 |->
                      /\ IsNaN(lam_in1[p]) \/ Ge(lam_in1[p], lam_min)
                      /\ IsNaN(lam_in2[p]) \/ Le(lam_in2[p], r.val)]
       IN Return([r.self EXCEPT !._line_mask = Val(mask)], mask)

\* a variant of line_mask_store whose upper end is exclusive
line_mask_store_exclusive(lam_in1, lam_min, lam_in2, r) ==
  IF r.exc # "" THEN r
  ELSE LET mask == [p \in DOMAIN lam_in1 |->
                      /\ Ge(lam_in1[p], lam_min)
                      /\ Le(lam_in2[p], r.val)
                      /\ lam_in2[p] # r.val]
       IN Return([r.self EXCEPT !._line_mask = Val(mask)], mask)

\* line 110-113: the mask from the arrays read, stored and returned
line_mask_store(lam_in1, lam_min, lam_in2, r) ==
  IF r.exc # "" THEN r
  ELSE LET mask == [p \in DOMAIN lam_in1 |->
                      Ge(lam_in1[p], lam_min) /\ Le(lam_in2[p], r.val)]
       IN Return([r.self EXCEPT !._line_mask = Val(mask)], mask)

\* line 111: self.lam_in (second read), then self.lam_max
line_mask_upper(lam_in1, lam_min, r) ==
  IF r.exc # "" THEN r
  ELSE line_mask_store(lam_in1, lam_min, r.val, lam_max_get(r.self))

\* line 110: self.lam_min, then the second read of self.lam_in
line_mask_lower(lam_in1, r) ==
  IF r.exc # "" THEN r
  ELSE line_mask_upper(lam_in1, r.val, lam_in_get(r.self))

\* line 110: after the first read of self.lam_in
line_mask_compute(r) ==
  IF r.exc # "" THEN r
  ELSE line_mask_lower(r.val, lam_min_get(r.self))

\* the line_mask property: (lam_in >= lam_min) * (lam_in <= lam_max)
line_mask_get(s) ==
  IF s._line_mask.st = "absent" THEN Raise(s, "AttributeError")
  ELSE IF s._line_mask.st = "val" THEN Return(s, s._line_mask.v)
  ELSE line_mask_compute(lam_in_get(s))

\* lines 118-122, after the read of self.line_mask
lines_ids_compute(r) ==
  IF r.exc # "" THEN r
  ELSE LET df == r.self.data.packets_df
           col == [p \in DOMAIN df |-> df[p].last_line_interaction_in_id]
           ids == BoolIndex(col, r.val)
           index == [k \in DOMAIN ids |->
                       ILoc(r.self.data.lines_df, ids[k]).line_id]
       IN Return([r.self EXCEPT !._lines_ids = Val(index)], index)

\* the lines_ids property
lines_ids_get(s) ==
  IF s._lines_ids.st = "absent" THEN Raise(s, "AttributeError")
  ELSE IF s._lines_ids.st = "val" THEN Return(s, s._lines_ids.v)
  ELSE lines_ids_compute(line_mask_get(s))

\* a variant of lines_ids_unique_compute that lists the distinct identifiers
\* in order of first appearance (pd.unique) instead of ascending (np.unique)
lines_ids_unique_compute_unsorted(r) ==
  IF r.exc # "" THEN r
  ELSE LET u == BoolIndex(r.val, [k \in DOMAIN r.val |->
                                    \A j \in 1..(k - 1) : r.val[j] # r.val[k]])
       IN Return([r.self EXCEPT !._lines_ids_unique = Val(u)], u)

\* line 127, after the read of self.lines_ids
lines_ids_unique_compute(r) ==
  IF r.exc # "" THEN r
  ELSE LET u == Unique(r.val)
       IN Return([r.self EXCEPT !._lines_ids_unique = Val(u)], u)

\* the lines_ids_unique property
lines_ids_unique_get(s) ==
  IF s._lines_ids_unique.st = "absent" THEN Raise(s, "AttributeError")
  ELSE IF s._lines_ids_unique.st = "val" THEN Return(s, s._lines_ids_unique.v)
  ELSE lines_ids_unique_compute(lines_ids_get(s))

\* lines 133-135, after the read of self.lines_ids_unique
lines_info_unique_compute(r) ==
  IF r.exc # "" THEN r
  ELSE LET info == [k \in DOMAIN r.val |->
                      Loc(r.self.data.lines_df, r.val[k])]
       IN Return([r.self EXCEPT !._lines_info_unique = Val(info)], info)

\* the lines_info_unique property
lines_info_unique_get(s) ==
  IF s._lines_info_unique.st = "absent" THEN Raise(s, "AttributeError")
  ELSE IF s._lines_info_unique.st = "val" THEN Return(s, s._lines_info_unique.v)
  ELSE lines_info_unique_compute(lines_ids_unique_get(s))

\* a variant of lines_count_compute that counts the distinct identifiers
lines_count_compute_of_unique(r) ==
  IF r.exc # "" THEN r
  ELSE LET kept == Positive(Bincount(Unique(r.val)))
       IN Return([r.self EXCEPT !._lines_count = Val(kept)], kept)

\* a variant of lines_count_compute that releases the cached lines_ids once
\* they are counted
lines_count_compute_releasing_ids(r) ==
  IF r.exc # "" THEN r
  ELSE LET kept == Positive(Bincount(r.val))
       IN Return([r.self EXCEPT !._lines_count = Val(kept), !._lines_ids = None],
                 kept)

\* lines 141-142, after the read of self.lines_ids
lines_count_compute(r) ==
  IF r.exc # "" THEN r
  ELSE LET kept == Positive(Bincount(r.val))
       IN Return([r.self EXCEPT !._lines_count = Val(kept)], kept)

\* the lines_count property
lines_count_get(s) ==
  IF s._lines_count.st = "absent" THEN Raise(s, "AttributeError")
  ELSE IF s._lines_count.st = "val" THEN Return(s, s._lines_count.v)
  ELSE lines_count_compute(lines_ids_get(s))

\* lam_max = ... after lam_min = ...: an exception raised by the first
\* assignment leaves the second undone
identify_second(r, lam_max) ==
  IF r.exc # "" THEN r ELSE lam_max_set(r.self, lam_max)

\* a variant of identify with its two arguments taken for each other
identify_swapped(s, lam_min, lam_max) ==
  identify_second(lam_min_set(s, lam_max), lam_min)

\* identify(lam_min, lam_max): the two assignments in turn
identify(s, lam_min, lam_max) ==
  identify_second(lam_min_set(s, lam_min), lam_max)

-----------------------------------------------------------------------------
(* plot_summary *)

\* an optional argument: Omitted (the default None) or Given(x)
Omitted == <<>>

Given(x) == <<x>>

\* a bare number, as passed to a bound setter
Bare(x) == [value |-> x, unit |-> "none"]

\* a Quantity
Qty(x, unit) == [value |-> x, unit |-> unit]

\* np.min / np.max of a float array without NaN
MinF(q) == Num(MinOf({q[i][1] : i \in DOMAIN q}))

MaxF(q) == Num(MaxOf({q[i][1] : i \in DOMAIN q}))

\* The results np.argsort(counts) can have: every permutation of the
\* positions that puts the counts in ascending order.  The order of equal
\* counts depends on the sort numpy selects, so each is a possible result.
RECURSIVE SortedOrders(_, _)
SortedOrders(c, S) ==
  IF S = {} THEN {<<>>}
  ELSE LET m == MinOf({c[i] : i \in S})
       IN UNION {{<<i>> \o p : p \in SortedOrders(c, S \ {i})} :
                   i \in {j \in S : c[j] = m}}

\* a variant of ArgSorts that sorts in descending order
ArgSortsDescending(c) ==
  {[k \in DOMAIN o |-> o[Len(o) + 1 - k]] : o \in SortedOrders(c, DOMAIN c)}

ArgSorts(c) == SortedOrders(c, DOMAIN c)

\* tardis.util.base.atomic_number2element_symbol
atomic_number2element_symbol(z) ==
  CASE z = 1 -> "H" [] z = 2 -> "He" [] OTHER -> "Li"

\* tardis.util.base.int_to_roman
int_to_roman(n) ==
  CASE n = 1 -> "I" [] n = 2 -> "II" [] OTHER -> "III"

\* f"{x:.3f}" and f"{x:.1f}" of a float with an integral value
Fmt3f(x) == ToString(x[1]) \o ".000"

Fmt1f(x) == ToString(x[1]) \o ".0"

\* the number of bars when nlines is omitted
DefaultNLines == 20

\* a variant of ResolveNLines that takes a given nlines as it is
ResolveNLinesUnclamped(nlines, n) ==
  IF nlines = Omitted
  THEN (IF n > DefaultNLines THEN DefaultNLines ELSE n)
  ELSE nlines[1]

\* lines 173-182: the value assigned to self.nlines
ResolveNLines(nlines, n) ==
  IF nlines = Omitted
  THEN (IF n > DefaultNLines THEN DefaultNLines ELSE n)
  ELSE (IF n > nlines[1] THEN nlines[1] ELSE n)

\* name[:-4] and name[-4:]
SliceToM4(name) == SubSeq(name, 1, IF Len(name) > 4 THEN Len(name) - 4 ELSE 0)

SliceFromM4(name) ==
  SubSeq(name, (IF Len(name) > 4 THEN Len(name) - 4 ELSE 0) + 1, Len(name))

Collapsed == <<"_", "c", "o", "l", "l", "a", "p", "s", "e", "d">>

\* the "# Line Transitions in Wavelength Range a - b Angstroms" line
HeaderLine(lo, hi) ==
  "# Line Transitions in Wavelength Range " \o Fmt1f(lo) \o " - " \o Fmt1f(hi)
    \o " Angstroms"

\* a variant of ExportRows that leaves the last line out
ExportRowsButLast(species, wavelengths, counts, fractions) ==
  [k \in 1..(Len(species) - 1) |->
     [Species |-> species[k], Wavelength |-> wavelengths[k],
      Total |-> counts[k], Fraction |-> fractions[k]]]

\* the rows of the DataFrame built at lines 229-236 (and again at 251-258)
ExportRows(species, wavelengths, counts, fractions) ==
  [k \in DOMAIN species |->
     [Species |-> species[k], Wavelength |-> wavelengths[k],
      Total |-> counts[k], Fraction |-> fractions[k]]]

RECURSIVE ConcatStr(_)
ConcatStr(q) == IF q = <<>> THEN "" ELSE q[1] \o ConcatStr(Tail(q))

\* a variant of GroupBySum that keeps the first row of each species
GroupByFirst(rows) ==
  BoolIndex(rows, [k \in DOMAIN rows |->
                     \A j \in 1..(k - 1) : rows[j].Species # rows[k].Species])

\* dataframe.groupby(["Species"]).sum(): one row per species, the numeric
\* columns summed and the strings of Wavelength concatenated, in row order.
\* Groups are listed here by first appearance; pandas lists them by key, and
\* the sort that follows reorders them.
GroupBySum(rows) ==
  LET first == [k \in DOMAIN rows |->
                  \A j \in 1..(k - 1) : rows[j].Species # rows[k].Species]
      keys == BoolIndex([k \in DOMAIN rows |-> rows[k].Species], first)
      of(sp) == BoolIndex(rows, [k \in DOMAIN rows |-> rows[k].Species = sp])
  IN [g \in DOMAIN keys |->
        LET grp == of(keys[g])
        IN [Species |-> keys[g],
            Wavelength |-> ConcatStr([k \in DOMAIN grp |-> grp[k].Wavelength]),
            Total |-> SumSeq([k \in DOMAIN grp |-> grp[k].Total]),
            Fraction |->
              [num |-> SumSeq([k \in DOMAIN grp |-> grp[k].Fraction.num]),
               den |-> grp[1].Fraction.den]]]

\* The results sort_values(by=["Total no. of transitions"], ascending=False)
\* can have: every order of the rows with non-increasing totals.
SortValuesDesc(rows) ==
  {[k \in DOMAIN rows |-> rows[o[Len(rows) + 1 - k]]] :
     o \in ArgSorts([k \in DOMAIN rows |-> rows[k].Total])}

\* plot_summary is written in steps like the getters.  Each step is given
\* the arguments a = [nlines, lam_max, output_filename] still needed and the
\* result r of the call before it, and yields the set of the possible
\* results of the whole call.

\* lines 167-274 once the arrays are read: one result for each result of
\* np.argsort(self.lines_count) (order, the same for the three calls of lines
\* 167-171, which sort the same array) and of sort_values at line 261
\* (collapsed).  The value returned stands for what the call shows and
\* writes: the figure, the files, and the ranked local arrays.
plot_draw(a, lines_count, lines_ids_unique, n, lines_info_unique, r) ==
  LET lo == lam_min_get(r.self).val
      hi == lam_max_get(r.self).val
      Ranked(order) ==
        LET _lines_count ==
              Reverse([k \in DOMAIN order |-> lines_count[order[k]]])
            _lines_fraction ==
              [k \in DOMAIN _lines_count |->
                 [num |-> _lines_count[k], den |-> SumSeq(lines_count)]]
            _lines_ids ==
              Reverse([k \in DOMAIN order |-> lines_ids_unique[order[k]]])
            row(k) == Loc(lines_info_unique, _lines_ids[k])
            species ==
              [k \in DOMAIN _lines_ids |->
                 atomic_number2element_symbol(row(k).atomic_number) \o " "
                   \o int_to_roman(row(k).ion_number + 1)]
            wavelengths ==
              [k \in DOMAIN _lines_ids |-> Fmt3f(row(k).wavelength)]
            labels == [k \in DOMAIN _lines_ids |->
                         species[k] \o ": " \o wavelengths[k] \o "AA"]
            figure ==
              [title |-> "Line Transitions in Range " \o Fmt1f(lo)
                           \o "AA <= lambda <= " \o Fmt1f(hi) \o "AA",
               bars |-> Reverse(Take(_lines_fraction, n)),
               yticklabels |-> Reverse(Take(labels, n)),
               annotation |->
                 [packets |-> Len(r.val),
                  shown |-> SumSeq(Take(_lines_count, n)),
                  nlines |-> n, lines |-> Len(lines_count)]]
            rows ==
              ExportRows(species, wavelengths, _lines_count, _lines_fraction)
            Files(collapsed) ==
              <<[name |-> a.output_filename[1], header |-> HeaderLine(lo, hi),
                 rows |-> rows],
                [name |-> SliceToM4(a.output_filename[1]) \o Collapsed
                            \o SliceFromM4(a.output_filename[1]),
                 header |-> HeaderLine(lo, hi), rows |-> collapsed]>>
            Shown(files) ==
              Return(r.self,
                     [figure |-> figure, files |-> files,
                      _lines_ids |-> _lines_ids, _lines_count |-> _lines_count])
        IN IF a.output_filename = Omitted THEN {Shown(<<>>)}
           ELSE {Shown(Files(collapsed)) :
                   collapsed \in SortValuesDesc(GroupBySum(rows))}
  IN IF r.exc # "" THEN {r}
     ELSE UNION {Ranked(order) : order \in ArgSorts(lines_count)}

\* lines 188-216: r is the read of self.lines_info_unique the label loop
\* makes; then len(self.lines_ids)
plot_labels(a, lines_count, lines_ids_unique, n, r) ==
  IF r.exc # "" THEN {r}
  ELSE plot_draw(a, lines_count, lines_ids_unique, n, r.val,
                 lines_ids_get(r.self))

\* lines 171-190: r is the read of self.lines_ids_unique; self.nlines is
\* assigned; the loop reads self.lines_info_unique unless it has no line to
\* go through
plot_nlines(a, lines_count, r) ==
  IF r.exc # "" THEN {r}
  ELSE LET n == ResolveNLines(a.nlines, Len(lines_count))
           s5 == [r.self EXCEPT !.nlines = Val(n)]
       IN plot_labels(a, lines_count, r.val, n,
                      IF r.val = <<>> THEN Return(s5, <<>>)
                      ELSE lines_info_unique_get(s5))

\* lines 167-171: r is the read of self.lines_count
plot_rank(a, r) ==
  IF r.exc # "" THEN {r}
  ELSE plot_nlines(a, r.val, lines_ids_unique_get(r.self))

\* after self.lam_max = ... (lines 162-165)
plot_after_lam_max(a, r) ==
  IF r.exc # "" THEN {r} ELSE plot_rank(a, lines_count_get(r.self))

\* a variant of plot_after_lam_min that assigns lam_max only when it is given
plot_after_lam_min_keeping(a, r) ==
  IF r.exc # "" THEN {r}
  ELSE IF a.lam_max = Omitted THEN plot_after_lam_max(a, r)
  ELSE plot_after_lam_max(a, lam_max_set(r.self, a.lam_max[1]))

\* after self.lam_min = ... (lines 157-160)
plot_after_lam_min(a, r) ==
  IF r.exc # "" THEN {r}
  ELSE plot_after_lam_max(a,
         lam_max_set(r.self,
                     IF a.lam_max = Omitted
                     THEN Bare(MaxF(r.self.data.spectrum_wavelength))
                     ELSE a.lam_max[1]))

\* plot_summary(nlines, lam_min, lam_max, output_filename): the set of its
\* possible results
plot_summary(s, nlines, lam_min, lam_max, output_filename) ==
  plot_after_lam_min(
    [nlines |-> nlines, lam_max |-> lam_max,
     output_filename |-> output_filename],
    lam_min_set(s, IF lam_min = Omitted
                   THEN Bare(MinF(s.data.spectrum_wavelength))
                   ELSE lam_min[1]))

\* from_simulation(cls, sim): the virtual packets when the run logged them,
\* the real packets otherwise
from_simulation(sim) ==
  IF sim.runner.virt_logging THEN __init__(sim.virtual) ELSE __init__(sim.real)

-----------------------------------------------------------------------------
(* The state machine: one instance, and the outcome of the last call on it *)

\* wavelengths 10, 20, ..., 10 * MaxWave are the numbers given as bounds
MaxWave == 2

\* nlines is omitted or one of 0 .. MaxNLines
MaxNLines == 2

Simulations ==
  {[runner |-> [virt_logging |-> TRUE], virtual |-> DataA, real |-> DataB],
   [runner |-> [virt_logging |-> FALSE], virtual |-> DataA, real |-> DataB]}

\* a run with many lines besides
ReportSimulations ==
  Simulations
    \cup {[runner |-> [virt_logging |-> TRUE], virtual |-> DataC, real |-> DataA]}

\* the values assigned to a bound: bare numbers, a length in another unit
\* (2 nm = 20 AA) and a quantity that is no length
BoundInputs ==
  {Bare(Num(10 * k)) : k \in 1..MaxWave}
    \cup {Qty(Num(2), "nm"), Qty(Num(20), "s")}

\* the bounds given to plot_summary: omitted, a number, and for lam_max also
\* a quantity that is no length
PlotLamMinInputs == {Omitted, Given(Bare(Num(20)))}

PlotLamMaxInputs == PlotLamMinInputs \cup {Given(Qty(Num(20), "s"))}

NLinesInputs == {Omitted} \cup {Given(n) : n \in 0..MaxNLines}

\* output_filename: omitted, "o.txt", and a name with a shorter extension,
\* "ab.h5"
FilenameInputs ==
  {Omitted, Given(<<"o", ".", "t", "x", "t">>),
   Given(<<"a", "b", ".", "h", "5">>)}

Outcome(op, args, r) == [op |-> op, args |-> args, exc |-> r.exc, val |-> r.val]

Init ==
  /\ self \in {from_simulation(sim) : sim \in Simulations}
  /\ out = [op |-> "__init__", args |-> <<>>, exc |-> "", val |-> <<>>]

\* a read of property op, whose getter is get
Read(op, r) ==
  /\ self' = r.self
  /\ out' = Outcome(op, <<>>, r)

GetLamMin == Read("lam_min", lam_min_get(self))

GetLamMax == Read("lam_max", lam_max_get(self))

GetLamIn == Read("lam_in", lam_in_get(self))

GetLineMask == Read("line_mask", line_mask_get(self))

GetLinesIds == Read("lines_ids", lines_ids_get(self))

GetLinesIdsUnique == Read("lines_ids_unique", lines_ids_unique_get(self))

GetLinesInfoUnique == Read("lines_info_unique", lines_info_unique_get(self))

GetLinesCount == Read("lines_count", lines_count_get(self))

SetLamMin ==
  \E val \in BoundInputs :
    LET r == lam_min_set(self, val)
    IN self' = r.self /\ out' = Outcome("lam_min=", <<val>>, r)

SetLamMax ==
  \E val \in BoundInputs :
    LET r == lam_max_set(self, val)
    IN self' = r.self /\ out' = Outcome("lam_max=", <<val>>, r)

Identify ==
  \E lam_min \in BoundInputs, lam_max \in BoundInputs :
    LET r == identify(self, lam_min, lam_max)
    IN self' = r.self /\ out' = Outcome("identify", <<lam_min, lam_max>>, r)

PlotSummary ==
  \E nlines \in NLinesInputs,
     lam_min \in PlotLamMinInputs, lam_max \in PlotLamMaxInputs,
     output_filename \in FilenameInputs :
    \E r \in plot_summary(self, nlines, lam_min, lam_max, output_filename) :
      /\ self' = r.self
      /\ out' = Outcome("plot_summary",
                        <<nlines, lam_min, lam_max, output_filename>>, r)

ResetCache ==
  /\ self' = _reset_cache(self)
  /\ out' = [op |-> "_reset_cache", args |-> <<>>, exc |-> "", val |-> None]

Next ==
  \/ GetLamMin
  \/ GetLamMax
  \/ GetLamIn
  \/ GetLineMask
  \/ GetLinesIds
  \/ GetLinesIdsUnique
  \/ GetLinesInfoUnique
  \/ GetLinesCount
  \/ SetLamMin
  \/ SetLamMax
  \/ Identify
  \/ PlotSummary
  \/ ResetCache

Spec == Init /\ [][Next]_vars

\* Calls of the report generator alone, on the larger set of datasets:
\* plot_summary assigns both bounds itself, so what it shows and writes
\* depends on its arguments and the dataset only.
InitReport ==
  /\ self \in {from_simulation(sim) : sim \in ReportSimulations}
  /\ out = [op |-> "__init__", args |-> <<>>, exc |-> "", val |-> <<>>]

NextReport == PlotSummary

SpecReport == InitReport /\ [][NextReport]_vars

-----------------------------------------------------------------------------
(* Properties *)

DerivedAttributes ==
  {"_lam_in", "_line_mask", "_lines_ids", "_lines_ids_unique",
   "_lines_info_unique", "_lines_count"}

\* the derived quantities whose value depends on the bounds
BoundDependent == DerivedAttributes \ {"_lam_in"}

BothBoundsSet == self._lam_min.st = "val" /\ self._lam_max.st = "val"

\* the instance with the same dataset and bounds and nothing cached
Emptied(s) ==
  [s EXCEPT !._lam_in = None, !._line_mask = None, !._lines_ids = None,
            !._lines_ids_unique = None, !._lines_info_unique = None,
            !._lines_count = None]

\* attribute q computed from scratch from the dataset and the current bounds
FromScratch(q) ==
  CASE q = "_lam_in" -> lam_in_get(Emptied(self))
    [] q = "_line_mask" -> line_mask_get(Emptied(self))
    [] q = "_lines_ids" -> lines_ids_get(Emptied(self))
    [] q = "_lines_ids_unique" -> lines_ids_unique_get(Emptied(self))
    [] q = "_lines_info_unique" -> lines_info_unique_get(Emptied(self))
    [] q = "_lines_count" -> lines_count_get(Emptied(self))

\* the last call was a read of the property cached in attribute q, and it
\* returned
ReadReturned(q) == "_" \o out.op = q /\ out.exc = ""

\* the number of packets a mask selects
CountTrue(mask) == Cardinality({p \in DOMAIN mask : mask[p]})

Occurrences(ids, id) == Cardinality({k \in DOMAIN ids : ids[k] = id})

\* C1: cache coherence.  In every reachable state, each derived quantity
\* that is cached, and each one the last read returned, equals the value
\* computed from scratch from the dataset and the bounds of that state (a
\* read leaves the bounds as they were); it is never a value computed under
\* earlier bounds.
CacheCoherence ==
  \A q \in DerivedAttributes :
    /\ self[q].st = "val" =>
         FromScratch(q).exc = "" /\ self[q].v = FromScratch(q).val
    /\ ReadReturned(q) =>
         FromScratch(q).exc = "" /\ out.val = FromScratch(q).val

\* C1 happens: lines_count is read after the bounds were narrowed: an
\* earlier plot_summary showed self.nlines lines, more than are in range now
CoherentAfterRebound ==
  /\ ReadReturned("_lines_count")
  /\ self.nlines.st = "val"
  /\ Len(out.val) > 0
  /\ self.nlines.v > Len(out.val)

\* C2: when lam_min <= lam_max, a packet's line_mask entry is true exactly
\* when lam_min <= lam_in <= lam_max, both ends included.
MaskIsInclusiveRange ==
  (self._line_mask.st = "val" /\ BothBoundsSet
     /\ self._lam_min.v[1] <= self._lam_max.v[1]) =>
    /\ self._lam_in.st = "val"
    /\ DOMAIN self._line_mask.v = DOMAIN self.data.packets_df
    /\ \A p \in DOMAIN self._line_mask.v :
         self._line_mask.v[p] <=>
           /\ self._lam_in.v[p] # NaN
           /\ self._lam_min.v[1] <= self._lam_in.v[p][1]
           /\ self._lam_in.v[p][1] <= self._lam_max.v[1]

\* C2 happens: a mask over lam_min < lam_max that includes a packet at
\* lam_min and one at lam_max and excludes a packet beyond the range
MaskWithBothEnds ==
  /\ out.op = "line_mask" /\ out.exc = ""
  /\ self._lam_min.v[1] < self._lam_max.v[1]
  /\ \E p \in DOMAIN out.val : out.val[p] /\ self._lam_in.v[p] = self._lam_min.v
  /\ \E p \in DOMAIN out.val : out.val[p] /\ self._lam_in.v[p] = self._lam_max.v
  /\ \E p \in DOMAIN out.val :
       /\ ~out.val[p]
       /\ self._lam_in.v[p] # NaN
       /\ self._lam_in.v[p][1] > self._lam_max.v[1]

\* C3: the counts add up to the number of masked packets, which is the
\* length of lines_ids.
CountsSumToMasked ==
  self._lines_count.st = "val" =>
    /\ self._line_mask.st = "val" /\ self._lines_ids.st = "val"
    /\ SumSeq(self._lines_count.v) = CountTrue(self._line_mask.v)
    /\ CountTrue(self._line_mask.v) = Len(self._lines_ids.v)

\* C3 happens: counts over a range holding several packets of several
\* lines, other packets being left out
CountsOfSeveralLines ==
  /\ out.op = "lines_count" /\ out.exc = ""
  /\ Len(out.val) >= 2
  /\ SumSeq(out.val) > Len(out.val)
  /\ CountTrue(self._line_mask.v) < Len(self.data.packets_df) - 1

\* C4: lines_ids_unique, lines_count and lines_info_unique are aligned:
\* same length, identifiers strictly ascending, lines_count[i] the number
\* (at least 1) of occurrences of lines_ids_unique[i] in lines_ids, and row i
\* of lines_info_unique the Lines-table row of that identifier.
UniqueCountInfoAligned ==
  (/\ self._lines_ids_unique.st = "val"
   /\ self._lines_count.st = "val"
   /\ self._lines_info_unique.st = "val") =>
    LET u == self._lines_ids_unique.v
        c == self._lines_count.v
        info == self._lines_info_unique.v
    IN /\ Len(u) = Len(c) /\ Len(c) = Len(info)
       /\ \A i \in 1..(Len(u) - 1) : u[i] < u[i + 1]
       /\ \A i \in DOMAIN u :
            /\ c[i] = Occurrences(self._lines_ids.v, u[i])
            /\ c[i] >= 1
            /\ info[i].line_id = u[i]
            /\ \E r \in DOMAIN self.data.lines_df :
                 self.data.lines_df[r] = info[i]

\* C4 happens: the three are cached for several lines whose identifiers
\* leave gaps (bins of count zero) and whose packets are not in table order
AlignedOverSeveralLines ==
  /\ self._lines_ids_unique.st = "val"
  /\ self._lines_count.st = "val"
  /\ self._lines_info_unique.st = "val"
  /\ Len(self._lines_ids_unique.v) >= 2
  /\ self._lines_ids_unique.v[2] > self._lines_ids_unique.v[1] + 1
  /\ \E k \in 1..(Len(self._lines_ids.v) - 1) :
       self._lines_ids.v[k] > self._lines_ids.v[k + 1]

\* the last call was plot_summary, and it returned
PlotReturned == out.op = "plot_summary" /\ out.exc = ""

\* its nlines argument, 20 when omitted
NLinesAsked == IF out.args[1] = Omitted THEN 20 ELSE out.args[1][1]

FileAsked == out.args[4] # Omitted

\* the number of distinct lines in range
LinesInRange ==
  Cardinality({self._lines_ids.v[k] : k \in DOMAIN self._lines_ids.v})

Smaller(a, b) == IF a < b THEN a ELSE b

\* C5 as claimed: the main export file has exactly min(nlines, number of
\* distinct lines in range) data rows, one per displayed bar.
ExportHoldsDisplayedOnly ==
  (PlotReturned /\ FileAsked) =>
    /\ Len(out.val.files[1].rows) = Smaller(NLinesAsked, LinesInRange)
    /\ Len(out.val.files[1].rows) = Len(out.val.figure.bars)

\* C5, amended: the main export file has a data row for every distinct line
\* in range, whatever nlines is, in rank order; its first min(nlines, number
\* of distinct lines) rows are the displayed lines, one per bar (the bars
\* run from the last displayed line up to the first), and the rows after
\* them are the lines that are not displayed.
ExportHoldsEveryLine ==
  (PlotReturned /\ FileAsked) =>
    LET rows == out.val.files[1].rows
        bars == out.val.figure.bars
        labels == out.val.figure.yticklabels
        n == Smaller(NLinesAsked, LinesInRange)
    IN /\ out.val.files[1].name = out.args[4][1]
       /\ Len(rows) = LinesInRange
       /\ Len(bars) = n /\ Len(labels) = n
       /\ \A k \in 1..n :
            /\ bars[n + 1 - k] = rows[k].Fraction
            /\ labels[n + 1 - k] =
                 rows[k].Species \o ": " \o rows[k].Wavelength \o "AA"
       /\ \A k \in DOMAIN rows :
            /\ rows[k].Total =
                 Occurrences(self._lines_ids.v, out.val._lines_ids[k])
            /\ rows[k].Fraction =
                 [num |-> rows[k].Total, den |-> Len(self._lines_ids.v)]
       /\ {out.val._lines_ids[k] : k \in DOMAIN rows} =
            {self._lines_ids.v[k] : k \in DOMAIN self._lines_ids.v}

\* C5 happens: a file is written while fewer lines are displayed than are in
\* range
ExportBeyondDisplayed ==
  /\ PlotReturned /\ FileAsked
  /\ Len(out.val.figure.bars) >= 1
  /\ Len(out.val.figure.bars) < Len(out.val.files[1].rows)

\* C6: the ranked sequence has non-increasing counts, pairs every distinct
\* line once with its own count, and the displayed lines (the first
\* self.nlines of it, which the bars show) leave out no line with a larger
\* count than a displayed one.
RankedByCount ==
  PlotReturned =>
    LET ri == out.val._lines_ids
        rc == out.val._lines_count
        bars == out.val.figure.bars
        n == Len(bars)
    IN /\ Len(ri) = LinesInRange /\ Len(rc) = LinesInRange
       /\ \A k \in 1..(Len(rc) - 1) : rc[k] >= rc[k + 1]
       /\ \A k \in DOMAIN ri :
            /\ rc[k] >= 1
            /\ rc[k] = Occurrences(self._lines_ids.v, ri[k])
            /\ \E i \in DOMAIN self._lines_ids_unique.v :
                 /\ self._lines_ids_unique.v[i] = ri[k]
                 /\ self._lines_count.v[i] = rc[k]
       /\ \A j, k \in DOMAIN ri : j # k => ri[j] # ri[k]
       /\ n <= Len(ri)
       /\ \A k \in 1..n : bars[n + 1 - k].num = rc[k]
       /\ \A k \in 1..n : \A j \in (n + 1)..Len(ri) :
            Occurrences(self._lines_ids.v, ri[j])
              <= Occurrences(self._lines_ids.v, ri[k])

\* C6 happens: three or more lines of different counts are ranked and some,
\* not all, are displayed
RankedAndTruncated ==
  /\ PlotReturned
  /\ Len(out.val._lines_count) >= 3
  /\ out.val._lines_count[1] > out.val._lines_count[Len(out.val._lines_count)]
  /\ Len(out.val.figure.bars) >= 1
  /\ Len(out.val.figure.bars) < Len(out.val._lines_count)

\* C7: plot_summary displays min(nlines, M) bars (nlines 20 when omitted, M
\* the number of distinct lines in range) and annotates the number of masked
\* packets, the sum of the counts of the displayed lines, and
\* "min(nlines, M) of M lines displayed".
BarsAndAnnotation ==
  PlotReturned =>
    LET n == Smaller(NLinesAsked, LinesInRange)
        note == out.val.figure.annotation
    IN /\ Len(out.val.figure.bars) = n
       /\ Len(out.val.figure.yticklabels) = n
       /\ self.nlines = Val(n)
       /\ note.packets = CountTrue(self._line_mask.v)
       /\ note.shown =
            SumSeq([k \in 1..n |->
                      Occurrences(self._lines_ids.v, out.val._lines_ids[k])])
       /\ note.nlines = n
       /\ note.lines = LinesInRange

\* C7 happens: nlines is omitted and more than 20 lines are in range
DefaultCapApplies ==
  /\ PlotReturned
  /\ out.args[1] = Omitted
  /\ LinesInRange > 20
  /\ Len(out.val.figure.bars) = 20
  /\ out.val.figure.annotation.shown < out.val.figure.annotation.packets

\* C8 as claimed: a read of lam_min (lam_max) on an instance on which it is
\* unset fails with the getter's ValueError.
UnsetBoundRaisesValueError ==
  /\ (out.op = "lam_min" /\ self._lam_min.st # "val") => out.exc = "ValueError"
  /\ (out.op = "lam_max" /\ self._lam_max.st # "val") => out.exc = "ValueError"

\* C9 as claimed: a read of any derived quantity, lam_in included, while a
\* bound is unset is an error.
DerivedReadNeedsBothBounds ==
  \A q \in DerivedAttributes :
    ("_" \o out.op = q /\ ~BothBoundsSet) => out.exc # ""

\* C9, amended: a read of line_mask, lines_ids, lines_ids_unique,
\* lines_info_unique or lines_count while lam_min or lam_max is unset is an
\* error and yields no value, and none of the five is cached then.  lam_in
\* does not depend on the bounds: its read returns the wavelengths whenever
\* the attribute exists, that is once any bound assignment was attempted,
\* and fails only on an instance no setter has run on.
BoundDependentReadNeedsBothBounds ==
  /\ \A q \in BoundDependent :
       ~BothBoundsSet =>
         /\ self[q].st # "val"
         /\ "_" \o out.op = q =>
              out.exc \in {"AttributeError", "ValueError"} /\ out.val = <<>>
  /\ out.op = "lam_in" =>
       \/ /\ out.exc = "" /\ self._lam_in = Val(out.val)
          /\ out.val = FromScratch("_lam_in").val
       \/ out.exc = "AttributeError" /\ self._lam_in = Absent

\* C9 happens: with lam_min assigned and lam_max not, a read of lines_count
\* fails, having cached lam_in on its way
ReadFailsOnUnsetBound ==
  /\ out.op = "lines_count" /\ out.exc # ""
  /\ self._lam_min.st = "val" /\ self._lam_max.st # "val"
  /\ self._lam_in.st = "val"

\* the packets with no last-line interaction
Sentinels ==
  {p \in DOMAIN self.data.packets_df : self.data.packets_df[p] = NoInteraction}

\* the identifiers of the masked packets that have an interaction, in order
InteractingIds ==
  LET df == self.data.packets_df
      ids == BoolIndex([p \in DOMAIN df |-> df[p].last_line_interaction_in_id],
                       [p \in DOMAIN df |->
                          self._line_mask.v[p] /\ p \notin Sentinels])
  IN [k \in DOMAIN ids |-> self.data.lines_df[ids[k] + 1].line_id]

\* C10: a packet with no last-line interaction is never included: its mask
\* entry is false, and lines_ids and lines_count are those of the masked
\* packets that have an interaction, so that position -1 is never resolved.
SentinelNeverIncluded ==
  /\ self._line_mask.st = "val" =>
       \A p \in Sentinels : ~self._line_mask.v[p]
  /\ self._lines_ids.st = "val" => self._lines_ids.v = InteractingIds
  /\ self._lines_count.st = "val" =>
       SumSeq(self._lines_count.v) = Len(InteractingIds)

\* C10 happens: lines are counted over a dataset with a packet with no
\* interaction, and the line at position -1 of the table is not among the
\* lines found
SentinelLeftOut ==
  /\ out.op = "lines_count" /\ out.exc = ""
  /\ Sentinels # {}
  /\ Len(out.val) >= 1
  /\ \A k \in DOMAIN self._lines_ids.v :
       self._lines_ids.v[k] # ILoc(self.data.lines_df, -1).line_id

\* the position of the last "." of a name, 0 when it has none
LastDot(name) ==
  IF \E i \in DOMAIN name : name[i] = "."
  THEN MaxOf({i \in DOMAIN name : name[i] = "."})
  ELSE 0

\* C11 as claimed: the second file of an export is named stem + "_collapsed"
\* + "." + extension, for an output_filename with an extension of any length.
CollapsedBeforeExtension ==
  (PlotReturned /\ FileAsked /\ LastDot(out.args[4][1]) > 1) =>
    LET name == out.args[4][1]
        dot == LastDot(name)
    IN out.val.files[2].name =
         SubSeq(name, 1, dot - 1) \o Collapsed \o SubSeq(name, dot, Len(name))

\* the species of the rows of an export file, and the rows of one species
SpeciesOf(rows) == {rows[k].Species : k \in DOMAIN rows}

RowsOf(rows, sp) == {k \in DOMAIN rows : rows[k].Species = sp}

RECURSIVE SumOver(_, _)
SumOver(rows, K) ==
  IF K = {} THEN 0
  ELSE LET k == CHOOSE k \in K : TRUE
       IN rows[k].Total + SumOver(rows, K \ {k})

\* C12: the collapsed file has exactly one row for each species of the main
\* file, whose total is the sum of the totals of the rows of that species in
\* the main file, and its rows are in non-increasing order of total.
CollapsedSumsBySpecies ==
  (PlotReturned /\ FileAsked) =>
    LET main == out.val.files[1].rows
        coll == out.val.files[2].rows
    IN /\ SpeciesOf(coll) = SpeciesOf(main)
       /\ Len(coll) = Cardinality(SpeciesOf(main))
       /\ \A g \in DOMAIN coll :
            coll[g].Total = SumOver(main, RowsOf(main, coll[g].Species))
       /\ \A g \in 1..(Len(coll) - 1) : coll[g].Total >= coll[g + 1].Total

\* C12 happens: several species are written, and the first of the collapsed
\* file is summed over several lines to more than any one line has
SeveralLinesCollapsed ==
  /\ PlotReturned /\ FileAsked
  /\ Len(out.val.files[2].rows) >= 2
  /\ Len(out.val.files[2].rows) < Len(out.val.files[1].rows)
  /\ out.val.files[2].rows[1].Total > out.val.files[1].rows[1].Total
  /\ out.val.files[2].rows[1].Total > out.val.files[2].rows[2].Total

\* C13: reads are idempotent.  A read of a derived quantity leaves the
\* bounds, the dataset and every derived quantity that is cached as they
\* were; a read of a quantity that is cached returns the cached value, same
\* values in the same order; and the value a read returns is the one cached
\* for the reads that follow.  So until a bound is assigned, repeated reads,
\* in any order, return the value of the first.
ReadsAreIdempotent ==
  [][\A q \in DerivedAttributes :
       "_" \o out'.op = q =>
         /\ self'._lam_min = self._lam_min
         /\ self'._lam_max = self._lam_max
         /\ self'.data = self.data
         /\ self'.nlines = self.nlines
         /\ \A p \in DerivedAttributes : self[p].st = "val" => self'[p] = self[p]
         /\ self[q].st = "val" => out'.exc = "" /\ out'.val = self[q].v
         /\ out'.exc = "" => self'[q] = Val(out'.val)]_vars

\* C13 happens: lines_ids_unique is read when lines_count and
\* lines_info_unique are cached by reads alone (no report was made), which
\* cached lines_ids_unique before: a repeated read, interleaved with others
RepeatedInterleavedRead ==
  /\ ReadReturned("_lines_ids_unique")
  /\ self.nlines = Absent
  /\ self._lines_count.st = "val"
  /\ self._lines_info_unique.st = "val"
  /\ Len(out.val) >= 2

\* a quantity q of a length unit is equal to the bare number a in Angstrom
SameLength(a, q) ==
  \/ q.unit = "AA" /\ q.value = a.value
  \/ q.unit = "nm" /\ 10 * q.value[1] = a.value[1]

BareNumbers == {Bare(Num(x)) : x \in 1..(10 * MaxWave)}

Lengths == {Qty(Num(x), unit) : x \in 1..(10 * MaxWave), unit \in LengthUnits}

\* the reads of the derived quantities, one after the other, on instance s
ReadAll(s) ==
  <<lam_in_get(s).val, line_mask_get(s).val, lines_ids_get(s).val,
    lines_ids_unique_get(s).val, lines_info_unique_get(s).val,
    lines_count_get(s)>>

\* C14: assigning a bound as a bare number and as a quantity equal to that
\* number of Angstrom, in any length unit, have the same result: the same
\* instance (the same bound stored in Angstrom, the same cache) and the same
\* values of the derived quantities read afterwards; and the bound stored by
\* an assignment that was made is its value in Angstrom.
BareEqualsQuantity ==
  /\ \A a \in BareNumbers, q \in Lengths :
       SameLength(a, q) =>
         /\ lam_min_set(self, a) = lam_min_set(self, q)
         /\ lam_max_set(self, a) = lam_max_set(self, q)
         /\ lam_min_set(self, a).self._lam_min = Val(a.value)
         /\ lam_max_set(self, q).self._lam_max = Val(a.value)
         /\ ReadAll(lam_min_set(self, a).self) = ReadAll(lam_min_set(self, q).self)
         /\ ReadAll(lam_max_set(self, a).self) = ReadAll(lam_max_set(self, q).self)
  /\ (out.op \in {"lam_min=", "lam_max="} /\ out.exc = "") =>
       LET val == out.args[1]
           stored == IF out.op = "lam_min=" THEN self._lam_min ELSE self._lam_max
       IN \/ val.unit = "none" /\ stored = Val(val.value)
          \/ val.unit # "none" /\ SameLength(Bare(stored.v), val)

\* C14 happens: lam_max was assigned 2 nm, 20 Angstrom are stored, as for the
\* bare 20 lam_min was assigned, and the lines at 20 Angstrom are counted
QuantityAssigned ==
  /\ out.op = "lam_max=" /\ out.exc = ""
  /\ out.args[1] = Qty(Num(2), "nm")
  /\ self._lam_max = Val(Num(20))
  /\ self._lam_min = Val(Num(20))
  /\ lines_count_get(self).exc = ""
  /\ Len(lines_count_get(self).val) >= 1

\* a value that can be given in Angstrom: a bare number or a length
Convertible(val) == val.unit \in {"none", "AA", "nm"}

\* the number of Angstrom of such a value
InAA(val) == IF val.unit = "nm" THEN Num(10 * val.value[1]) ELSE val.value

\* lam_min = a and then lam_max = b, as two statements: the second is
\* reached if the first returned
MinThenMax(s, a, b) ==
  LET r == lam_min_set(s, a)
  IN IF r.exc # "" THEN r ELSE lam_max_set(r.self, b)

\* lam_max = b and then lam_min = a
MaxThenMin(s, a, b) ==
  LET r == lam_max_set(s, b)
  IN IF r.exc # "" THEN r ELSE lam_min_set(r.self, a)

AllEmpty(s) == \A q \in DerivedAttributes : s[q] = None

\* C15 as claimed: from any state and for any two values, identify(a, b)
\* leaves the instance as lam_min = a followed by lam_max = b does, and as
\* the two assignments in the other order do.
IdentifyOrderIrrelevant ==
  \A a \in BoundInputs, b \in BoundInputs :
    /\ identify(self, a, b) = MinThenMax(self, a, b)
    /\ identify(self, a, b).self = MaxThenMin(self, a, b).self

\* C15, amended: from any state, identify(a, b) has the result of lam_min = a
\* followed by lam_max = b.  When both values can be converted to Angstrom
\* it returns with both bounds stored and the derived cache empty, and the
\* two assignments in the other order leave the same instance.  When a
\* cannot be converted and b can, identify(a, b) raises before lam_max is
\* assigned and leaves lam_max as it was, while lam_max = b followed by
\* lam_min = a stores b.
IdentifyIsTwoAssignments ==
  /\ \A a \in BoundInputs, b \in BoundInputs :
       /\ identify(self, a, b) = MinThenMax(self, a, b)
       /\ (Convertible(a) /\ Convertible(b)) =>
            /\ identify(self, a, b).exc = ""
            /\ identify(self, a, b).self = MaxThenMin(self, a, b).self
            /\ identify(self, a, b).self =
                 [Emptied(self) EXCEPT !._lam_min = Val(InAA(a)),
                                       !._lam_max = Val(InAA(b))]
       /\ (~Convertible(a) /\ Convertible(b)) =>
            /\ identify(self, a, b).exc # ""
            /\ identify(self, a, b).self._lam_max = self._lam_max
            /\ MaxThenMin(self, a, b).self._lam_max = Val(InAA(b))
  /\ (out.op = "identify" /\ out.exc = "") =>
       /\ self._lam_min = Val(InAA(out.args[1]))
       /\ self._lam_max = Val(InAA(out.args[2]))
       /\ AllEmpty(self)

\* C15 happens: identify returned with two different bounds on an instance a
\* report was made on before, and nothing is cached
IdentifiedAfterReport ==
  /\ out.op = "identify" /\ out.exc = ""
  /\ self.nlines.st = "val"
  /\ self._lam_min.v[1] < self._lam_max.v[1]
  /\ AllEmpty(self)

\* C16: an assignment to lam_min, made or failed, leaves every one of the six
\* derived quantities empty, lam_in included, and leaves lam_max, the dataset
\* and nlines as they were; when it is made, lam_min is the value assigned,
\* in Angstrom.  Likewise for lam_max.  The value assigned may be the one the
\* bound has.
SetterClearsWholeCache ==
  [][/\ out'.op = "lam_min=" =>
          /\ AllEmpty(self')
          /\ self'._lam_max = self._lam_max
          /\ self'.data = self.data /\ self'.nlines = self.nlines
          /\ out'.exc = "" => self'._lam_min = Val(InAA(out'.args[1]))
     /\ out'.op = "lam_max=" =>
          /\ AllEmpty(self')
          /\ self'._lam_min = self._lam_min
          /\ self'.data = self.data /\ self'.nlines = self.nlines
          /\ out'.exc = "" => self'._lam_max = Val(InAA(out'.args[1]))]_vars

\* C16 happens: lam_min was assigned on an instance a report was made on
\* before, whose lam_max is still set, and nothing is cached
SetterEmptiedCache ==
  /\ out.op = "lam_min=" /\ out.exc = ""
  /\ self.nlines.st = "val" /\ self.nlines.v >= 1
  /\ self._lam_max.st = "val"
  /\ AllEmpty(self)

\* the packets of instance s whose wavelength is between lo and hi
PacketsWithin(s, lo, hi) ==
  {p \in DOMAIN s.data.packets_df :
     LET nu == s.data.packets_df[p].last_line_interaction_in_nu
     IN /\ nu # NaN
        /\ lo[1] <= CLight \div nu[1]
        /\ CLight \div nu[1] <= hi[1]}

\* the value of property q read on instance s
ReadOf(q, s) ==
  CASE q = "_lam_in" -> lam_in_get(s)
    [] q = "_line_mask" -> line_mask_get(s)
    [] q = "_lines_ids" -> lines_ids_get(s)
    [] q = "_lines_ids_unique" -> lines_ids_unique_get(s)
    [] q = "_lines_info_unique" -> lines_info_unique_get(s)
    [] q = "_lines_count" -> lines_count_get(s)

\* C17: when plot_summary has returned, lam_min and lam_max are the
\* arguments given, in Angstrom, and the least / greatest wavelength of the
\* dataset's spectrum where omitted, whatever they were before; the figure
\* is of the packets within these bounds, and every derived quantity read
\* afterwards is the one computed from these bounds.
PlotOverwritesBounds ==
  PlotReturned =>
    LET sw == self.data.spectrum_wavelength
        lo == IF out.args[2] = Omitted
              THEN Num(MinOf({sw[i][1] : i \in DOMAIN sw}))
              ELSE InAA(out.args[2][1])
        hi == IF out.args[3] = Omitted
              THEN Num(MaxOf({sw[i][1] : i \in DOMAIN sw}))
              ELSE InAA(out.args[3][1])
    IN /\ self._lam_min = Val(lo)
       /\ self._lam_max = Val(hi)
       /\ out.val.figure.annotation.packets
            = Cardinality(PacketsWithin(self, lo, hi))
       /\ \A q \in DerivedAttributes :
            /\ ReadOf(q, self).exc = ""
            /\ ReadOf(q, self).val = FromScratch(q).val
       /\ line_mask_get(self).val =
            [p \in DOMAIN self.data.packets_df |->
               p \in PacketsWithin(self, lo, hi)]

\* C17 happens: a report was made with lam_min omitted and lam_max given,
\* the bounds are the least wavelength of the spectrum and the one given,
\* and some packets, not all, are within them
PlotReplacedBounds ==
  /\ PlotReturned
  /\ out.args[2] = Omitted /\ out.args[3] # Omitted
  /\ self._lam_min.v[1] < self._lam_max.v[1]
  /\ out.val.figure.annotation.packets >= 1
  /\ out.val.figure.annotation.packets < Len(self.data.packets_df) - 1

\* C18: an assignment of a value that cannot be converted to Angstrom raises
\* the conversion's error, leaves both bounds as they were and the derived
\* cache empty; the derived quantities read afterwards are those of the
\* unchanged bounds.
FailedAssignmentKeepsBounds ==
  [][(out'.op \in {"lam_min=", "lam_max="} /\ ~Convertible(out'.args[1])) =>
       /\ out'.exc = "UnitConversionError" /\ out'.val = <<>>
       /\ self'._lam_min = self._lam_min
       /\ self'._lam_max = self._lam_max
       /\ self'.data = self.data /\ self'.nlines = self.nlines
       /\ AllEmpty(self')
       /\ (self._lam_min.st = "val" /\ self._lam_max.st = "val") =>
            /\ lines_count_get(self').exc = ""
            /\ SumSeq(lines_count_get(self').val) =
                 Cardinality(PacketsWithin(self, self._lam_min.v,
                                           self._lam_max.v))
            /\ line_mask_get(self').val =
                 [p \in DOMAIN self.data.packets_df |->
                    p \in PacketsWithin(self, self._lam_min.v,
                                        self._lam_max.v)]]_vars

\* C18 happens: an assignment to lam_max failed on an instance a report was
\* made on before; both bounds are set and nothing is cached
AssignmentFailed ==
  /\ out.op = "lam_max=" /\ out.exc = "UnitConversionError"
  /\ BothBoundsSet
  /\ self.nlines.st = "val" /\ self.nlines.v >= 1
  /\ AllEmpty(self)

====
